---- MODULE Spec2Model ----
(***************************************************************************)
(* MPI Strassen matrix multiplication over a 7-ary process tree            *)
(* (strassen_mpi.c, main.c, matrix_utils.c).                               *)
(*                                                                         *)
(* Processes are the MPI ranks 0..num_procs-1.  Rank 0 runs main's         *)
(* coordinator branch, every other rank runs workerProcess.  A call of     *)
(* strassenMultiplyMPI that communicates is a frame on the caller's stack  *)
(* and advances one MPI call at a time; a call in whose call tree no       *)
(* MPI call is made is evaluated in one step by the operator of the same   *)
(* name.  MPI_Send is the standard-mode blocking send: the transport       *)
(* buffers up to `cap` messages per ordered pair of ranks and the sender   *)
(* stays in MPI_Send until its message is buffered or received; cap = 0    *)
(* is the rendezvous protocol.                                             *)
(*                                                                         *)
(* Matrices.  The thresholds are the program's (64 and 5), so a call       *)
(* distributes only for n >= 128.  The inputs are drawn from the matrices  *)
(* that are constant on each aligned BlockSide x BlockSide block; such a   *)
(* matrix of side n is stored as its Dim(n) x Dim(n) grid of block values. *)
(* Sums, differences, quadrants (for n > BlockSide) and products of such   *)
(* matrices are again of this kind, and every matrix operator below is     *)
(* the source's loop evaluated on this storage: an index loop over 0..n-1  *)
(* runs over the grid, and the inner product loop of standardMultiply      *)
(* adds BlockSide equal terms per grid cell.  A matrix of side             *)
(* n <= BlockSide is one constant block of side n.                         *)
(***************************************************************************)
EXTENDS Integers, Sequences, FiniteSets, TLC

MIN_SIZE_THRESHOLD == 64

MAX_TREE_HEIGHT == 5

BlockSide == MIN_SIZE_THRESHOLD

\* Messages the transport buffers per ordered pair of ranks (eager limit).
MaxBuffered == 1

\* The runs explored: (matrix side, number of processes, messages the
\* transport buffers, kind of A, kind of B).  With 9 processes rank 1 has
\* a child of its own (rank 8).
SmallConfigs ==
  { <<4, 2>>, <<32, 3>>, <<64, 1>>, <<64, 2>>, <<64, 3>>, <<128, 1>>,
    <<128, 2>>, <<128, 3>>, <<256, 2>> }

KindPairs == { <<"r123", "r456">>, <<"ones", "r123">>, <<"r456", "zero">> }

Runs ==
  { <<c[1], c[2], b, kp[1], kp[2]>> :
      c \in SmallConfigs, b \in 0 .. MaxBuffered, kp \in KindPairs }
    \cup { <<256, 9, 0, "r123", "r456">>, <<64, 9, 0, "r123", "r456">> }

\* Runs whose size argument main rejects.
BadSizes == { -4, 0, 1, 3, 6, 96 }

BadRuns ==
  { <<n, p, 0, "r123", "r456">> : n \in BadSizes, p \in {1, 2, 3} }

Dim(n) == IF n <= BlockSide THEN 1 ELSE n \div BlockSide

\* The side of the constant blocks of a matrix of side n.
Side(n) == IF n <= BlockSide THEN n ELSE BlockSide

Idx(n) == 0 .. (Dim(n) - 1)

Min(S) == CHOOSE x \in S : \A y \in S : x <= y

----------------------------------------------------------------------------
(* matrix_utils.c                                                          *)

initializeMatrix(n) == [i \in Idx(n) |-> [j \in Idx(n) |-> 0]]

addMatrices(A, B, n) ==
  [i \in Idx(n) |-> [j \in Idx(n) |-> A[i][j] + B[i][j]]]

subtractMatrices(A, B, n) ==
  [i \in Idx(n) |-> [j \in Idx(n) |-> A[i][j] - B[i][j]]]

copyMatrix(source, n) ==
  [i \in Idx(n) |-> [j \in Idx(n) |-> source[i][j]]]

\* The four quadrants of side k of a matrix of side 2k.
splitMatrix(parent, k) ==
  [ q11 |-> [i \in Idx(k) |-> [j \in Idx(k) |-> parent[i][j]]],
    q12 |-> [i \in Idx(k) |-> [j \in Idx(k) |-> parent[i][j + Dim(k)]]],
    q21 |-> [i \in Idx(k) |-> [j \in Idx(k) |-> parent[i + Dim(k)][j]]],
    q22 |->
      [i \in Idx(k) |-> [j \in Idx(k) |-> parent[i + Dim(k)][j + Dim(k)]]] ]

combineBlocks(C11, C12, C21, C22, k) ==
  [i \in Idx(2 * k) |->
    [j \in Idx(2 * k) |->
      IF i < Dim(k)
        THEN (IF j < Dim(k) THEN C11[i][j] ELSE C12[i][j - Dim(k)])
        ELSE (IF j < Dim(k) THEN C21[i - Dim(k)][j]
                            ELSE C22[i - Dim(k)][j - Dim(k)])]]

\* flattenMatrix walking the columns first (matrix[j][i]).
flattenMatrix_ColumnMajor(matrix, n) ==
  [x \in 1 .. (Dim(n) * Dim(n)) |->
    matrix[(x - 1) % Dim(n)][(x - 1) \div Dim(n)]]

\* Row-major: flat[index++] = matrix[i][j].
flattenMatrix(matrix, n) ==
  [x \in 1 .. (Dim(n) * Dim(n)) |->
    matrix[(x - 1) \div Dim(n)][(x - 1) % Dim(n)]]

unflattenMatrix(flat, n) ==
  [i \in Idx(n) |-> [j \in Idx(n) |-> flat[i * Dim(n) + j + 1]]]

isPowerOfTwo(n) ==
  n > 0 /\ \E e \in 0 .. 30 : n = 2 ^ e

RECURSIVE DotProduct(_, _, _, _, _, _)
\* C[i][j] += A[i][k] * B[k][j] for k = from .. n-1.
DotProduct(A, B, i, j, from, n) ==
  IF from >= Dim(n) THEN 0
  ELSE Side(n) * A[i][from] * B[from][j]
         + DotProduct(A, B, i, j, from + 1, n)

\* standardMultiply assigning in place of accumulating (= for +=): only
\* the last term of the inner loop is left.
standardMultiply_LastTermOnly(A, B, n) ==
  [i \in Idx(n) |->
    [j \in Idx(n) |-> A[i][Dim(n) - 1] * B[Dim(n) - 1][j]]]

standardMultiply(A, B, n) ==
  [i \in Idx(n) |-> [j \in Idx(n) |-> DotProduct(A, B, i, j, 0, n)]]

----------------------------------------------------------------------------
(* main.c: the input generator and the reference product                   *)

\* matrix[i][j] = rand() % 10 after srand(seed): a value 0..9 per entry,
\* fixed by the seed and the position.
initializeRandomMatrix(n, seed) ==
  [i \in Idx(n) |->
    [j \in Idx(n) |-> (seed + 3 * i + 7 * j + i * j) % 10]]

\* The inputs explored: main's two seeded matrices, and the zero and
\* all-ones matrices.
InputMatrix(n, kind) ==
  CASE kind = "zero" -> initializeMatrix(n)
    [] kind = "ones" -> [i \in Idx(n) |-> [j \in Idx(n) |-> 1]]
    [] kind = "r123" -> initializeRandomMatrix(n, 123)
    [] kind = "r456" -> initializeRandomMatrix(n, 456)

sequentialStandardMultiply(A, B, n) ==
  [i \in Idx(n) |->
    [j \in Idx(n) |-> DotProduct(A, B, i, j, 0, n)]]

----------------------------------------------------------------------------
(* strassen_mpi.c                                                          *)

\* shouldDistribute with the depth test off by one (level > MAX_TREE_HEIGHT).
shouldDistribute_DepthOffByOne(n, level, nprocs, rank) ==
  IF n <= MIN_SIZE_THRESHOLD THEN FALSE
  ELSE IF level > MAX_TREE_HEIGHT THEN FALSE
  ELSE IF rank * 7 + 1 >= nprocs THEN FALSE
  ELSE TRUE

shouldDistribute(n, level, nprocs, rank) ==
  IF n <= MIN_SIZE_THRESHOLD THEN FALSE
  ELSE IF level >= MAX_TREE_HEIGHT THEN FALSE
  ELSE IF rank * 7 + 1 >= nprocs THEN FALSE
  ELSE TRUE

\* The child rank without the slot: every slot goes to the first child.
ChildRank_FirstChildOnly(rank, i) == rank * 7 + 1

\* The children numbered from the last slot down.
ChildRank_Descending(rank, i) == rank * 7 + (7 - i)

\* The child rank with a stride of 6 in place of 7.
ChildRank_StrideSix(rank, i) == rank * 6 + (i + 1)

\* child_rank = rank * 7 + (i + 1)
ChildRank(rank, i) == rank * 7 + (i + 1)

\* The validity test off by one (child_rank <= num_procs).
ChildValid_OffByOne(rank, i, nprocs) == rank * 7 + (i + 1) <= nprocs

\* if (child_rank < num_procs)
ChildValid(rank, i, nprocs) == ChildRank(rank, i) < nprocs

\* The operand pair of product product_index (the switch).
ProductOperands(qa, qb, k, product_index) ==
  CASE product_index = 0 ->
         [tempA |-> addMatrices(qa.q11, qa.q22, k),
          tempB |-> addMatrices(qb.q11, qb.q22, k)]
    [] product_index = 1 ->
         [tempA |-> addMatrices(qa.q21, qa.q22, k),
          tempB |-> copyMatrix(qb.q11, k)]
    [] product_index = 2 ->
         [tempA |-> copyMatrix(qa.q11, k),
          tempB |-> subtractMatrices(qb.q12, qb.q22, k)]
    [] product_index = 3 ->
         [tempA |-> copyMatrix(qa.q22, k),
          tempB |-> subtractMatrices(qb.q21, qb.q11, k)]
    [] product_index = 4 ->
         [tempA |-> addMatrices(qa.q11, qa.q12, k),
          tempB |-> copyMatrix(qb.q22, k)]
    [] product_index = 5 ->
         [tempA |-> subtractMatrices(qa.q21, qa.q11, k),
          tempB |-> addMatrices(qb.q11, qb.q12, k)]
    [] product_index = 6 ->
         [tempA |-> subtractMatrices(qa.q12, qa.q22, k),
          tempB |-> addMatrices(qb.q21, qb.q22, k)]

\* The level computeStrassenProductMPI passes to the kernel.
\* The level of a nested call taken one lower instead of one higher.
ProductLevel_Decrement(level) == level - 1

ProductLevel(level) == level + 1

\* The recombination with C21 = P2 + P5 in place of P2 + P4.
Recombine_WrongC21(P, k) ==
  LET C11 == addMatrices(
               subtractMatrices(addMatrices(P[0], P[3], k), P[4], k),
               P[6], k)
      C12 == addMatrices(P[2], P[4], k)
      C21 == addMatrices(P[1], P[4], k)
      C22 == addMatrices(
               addMatrices(subtractMatrices(P[0], P[1], k), P[2], k),
               P[5], k)
  IN  combineBlocks(C11, C12, C21, C22, k)

\* C11 = P1 + P4 - P5 + P7, C12 = P3 + P5, C21 = P2 + P4,
\* C22 = P1 - P2 + P3 + P6, then combineBlocks.
Recombine(P, k) ==
  LET C11 == addMatrices(
               subtractMatrices(addMatrices(P[0], P[3], k), P[4], k),
               P[6], k)
      C12 == addMatrices(P[2], P[4], k)
      C21 == addMatrices(P[1], P[3], k)
      C22 == addMatrices(
               addMatrices(subtractMatrices(P[0], P[1], k), P[2], k),
               P[5], k)
  IN  combineBlocks(C11, C12, C21, C22, k)

\* The half taken of n - 1.
HalfSize_OffByOne(n) == (n - 1) \div 2

\* int k = n / 2;
HalfSize(n) == n \div 2

\* The calls nested in a kernel call of size n that computes its products
\* itself, as pairs << size of the call, size of the call nested in it >>.
RECURSIVE KernelCalls(_)
KernelCalls(n) ==
  IF n <= MIN_SIZE_THRESHOLD THEN {}
  ELSE { << n, HalfSize(n) >> } \cup KernelCalls(HalfSize(n))

RECURSIVE NoDistribution(_, _, _, _)
\* No call in the call tree of strassenMultiplyMPI(_, _, n, rank, nprocs,
\* level) takes the distributing branch.
NoDistribution(n, level, nprocs, rank) ==
  \/ n <= MIN_SIZE_THRESHOLD
  \/ /\ ~shouldDistribute(n, level, nprocs, rank)
     /\ NoDistribution(HalfSize(n), ProductLevel(level), nprocs, rank)

RECURSIVE strassenMultiplyMPI(_, _, _, _, _, _)
\* The kernel where it makes no MPI call (NoDistribution): the base cases
\* and the branch that computes all seven products locally.
strassenMultiplyMPI(A, B, n, rank, nprocs, level) ==
  IF n = 1 THEN [i \in Idx(1) |-> [j \in Idx(1) |-> A[0][0] * B[0][0]]]
  ELSE IF n <= MIN_SIZE_THRESHOLD THEN standardMultiply(A, B, n)
  ELSE
    LET k  == HalfSize(n)
        qa == splitMatrix(A, k)
        qb == splitMatrix(B, k)
        P  == [i \in 0 .. 6 |->
                LET ops == ProductOperands(qa, qb, k, i)
                IN  strassenMultiplyMPI(ops.tempA, ops.tempB, k, rank,
                                        nprocs, ProductLevel(level))]
    IN  Recombine(P, k)

----------------------------------------------------------------------------
(* The processes                                                           *)

VARIABLES
  num_procs,    \* MPI_Comm_size
  size,         \* main's n
  cap,          \* messages the transport buffers per ordered pair of ranks
  matA, matB,   \* main's A and B
  matC,         \* main's C, <<>> until strassenMultiplyMPI has returned
  pc,           \* rank -> where that process is
  stack,        \* rank -> its strassenMultiplyMPI calls that communicate
  chan,         \* <<source, destination>> -> messages sent, not yet received
  wk,           \* rank -> workerProcess's locals
  termI,        \* i of main's termination loop
  started,      \* rank w -> Tasks whose size message has been sent to w
  replied,      \* rank w -> results w has sent back
  answered,     \* rank w -> results of w its parent has received
  taskLog,      \* the Tasks started: sender, addressee, n, level, i, A, B
  shutLog,      \* the termination messages sent, in order
  gotShutdown,  \* rank w -> w has received size 0 at the top of its loop
  kcall,        \* rank w -> the kernel call w made for its latest Task
  reported,     \* the ranks that printed the size error
  dec           \* a call of shouldDistribute on its own: arguments, result

protoVars ==
  << num_procs, size, cap, matA, matB, matC, pc, stack, chan, wk, termI,
     started, replied, answered, taskLog, shutLog, gotShutdown, kcall,
     reported >>

vars ==
  << num_procs, size, cap, matA, matB, matC, pc, stack, chan, wk, termI,
     started, replied, answered, taskLog, shutLog, gotShutdown, kcall,
     reported, dec >>

Ranks == 0 .. (num_procs - 1)

AllRanks == UNION { 0 .. (c[2] - 1) : c \in Runs }

Msg(kind, count, data) == [kind |-> kind, count |-> count, data |-> data]

\* MPI_Send has returned: the message is buffered or has been received.
SendComplete(r) == \A d \in Ranks : Len(chan[<<r, d>>]) <= cap

\* MPI_Send(.., dest, TAG_WORK, MPI_COMM_WORLD)
Post(src, dest, m) ==
  IF dest \in Ranks THEN [chan EXCEPT ![<<src, dest>>] = Append(@, m)]
  ELSE chan

Top(r) == stack[r][Len(stack[r])]

ReplaceTop(r, f) == [stack EXCEPT ![r] = [@ EXCEPT ![Len(@)] = f]]

\* The sending loop left after its first Task.
NextChild_FirstOnly(rank, from, nprocs) ==
  IF from = 0 /\ ChildValid(rank, 0, nprocs) THEN 0 ELSE 7

\* The next i >= from of the sending loop with a valid child, 7 if none.
NextChild(rank, from, nprocs) ==
  LET S == { j \in from .. 6 : ChildValid(rank, j, nprocs) }
  IN  IF S = {} THEN 7 ELSE Min(S)

\* The collecting loop entered as in the local branch: after the Tasks are
\* sent every product is computed by this process and no reply is awaited.
AtSendSlot_ComputesAll(f, j) ==
  IF j >= 7
    THEN [f EXCEPT !.phase = "collect", !.i = 0, !.fld = 1, !.dist = FALSE]
  ELSE [f EXCEPT !.phase = "send", !.i = j, !.fld = 1]

\* The sending loop at i = j; after it, the collecting loop from i = 0.
AtSendSlot(f, j) ==
  IF j >= 7 THEN [f EXCEPT !.phase = "collect", !.i = 0, !.fld = 1]
  ELSE [f EXCEPT !.phase = "send", !.i = j, !.fld = 1]

\* strassenMultiplyMPI entered with n > MIN_SIZE_THRESHOLD: the quadrants
\* are split, P is empty, and shouldDistribute picks the branch.  The
\* call's history is kept with it: tasks[i] counts the Tasks it sent for
\* slot i, got[i] the assignments to P[i], how[i] tells a received product
\* from one computed by this process.
NewFrame(A, B, n, rank, level) ==
  LET dist == shouldDistribute(n, level, num_procs, rank)
      f == [ A |-> A, B |-> B, n |-> n, level |-> level, dist |-> dist,
             phase |-> "collect", i |-> 0, fld |-> 1,
             P |-> [x \in 0 .. 6 |-> << >>],
             tasks |-> [x \in 0 .. 6 |-> 0],
             got |-> [x \in 0 .. 6 |-> 0],
             how |-> [x \in 0 .. 6 |-> "none"] ]
  IN  IF dist THEN AtSendSlot(f, NextChild(rank, 0, num_procs)) ELSE f

\* A call strassenMultiplyMPI(A, B, n, rank, num_procs, level): it returns
\* at once when its call tree makes no MPI call, else it becomes a frame.
KCall(A, B, n, rank, level) ==
  IF NoDistribution(n, level, num_procs, rank)
    THEN [ret |-> TRUE,
          val |-> strassenMultiplyMPI(A, B, n, rank, num_procs, level)]
    ELSE [ret |-> FALSE, val |-> NewFrame(A, B, n, rank, level)]

\* The Task with the level sent before the product index.
TaskField_LevelBeforeIndex(f, fld) ==
  CASE fld = 1 -> Msg("size", 1, << f.n >>)
    [] fld = 2 -> Msg("level", 1, << f.level >>)
    [] fld = 3 -> Msg("product_index", 1, << f.i >>)
    [] fld = 4 -> Msg("A", f.n * f.n, flattenMatrix(f.A, f.n))
    [] fld = 5 -> Msg("B", f.n * f.n, flattenMatrix(f.B, f.n))

\* The five messages of a Task, in the order they are sent.
TaskField(f, fld) ==
  CASE fld = 1 -> Msg("size", 1, << f.n >>)
    [] fld = 2 -> Msg("product_index", 1, << f.i >>)
    [] fld = 3 -> Msg("level", 1, << f.level >>)
    [] fld = 4 -> Msg("A", f.n * f.n, flattenMatrix(f.A, f.n))
    [] fld = 5 -> Msg("B", f.n * f.n, flattenMatrix(f.B, f.n))

\* The size test without its lower bound.
SizeRejected_NoLowerBound(n) == ~isPowerOfTwo(n)

\* if (!isPowerOfTwo(n) || n < 2)
SizeRejected(n) == ~isPowerOfTwo(n) \/ n < 2

\* main up to the branch on rank: a rejected size argument ends the process
\* (rank 0 prints the error), else rank 0 goes on as coordinator and every
\* other rank enters workerProcess.
Start(r) ==
  /\ pc[r] = "start"
  /\ IF SizeRejected(size)
       THEN /\ pc' = [pc EXCEPT ![r] = "done"]
            /\ reported' = IF r = 0 THEN reported \cup {r} ELSE reported
       ELSE /\ pc' = [pc EXCEPT ![r] = IF r = 0 THEN "main" ELSE "wait"]
            /\ reported' = reported
  /\ UNCHANGED << num_procs, size, cap, matA, matB, matC, stack, chan, wk,
                  termI, started, replied, answered, taskLog, shutLog,
                  gotShutdown, kcall, dec >>

\* main: C = strassenMultiplyMPI(A, B, n, rank, num_procs, 0)
MainCall(r) ==
  /\ r = 0
  /\ pc[r] = "main"
  /\ LET c == KCall(matA, matB, size, r, 0)
     IN  IF c.ret
           THEN /\ matC' = c.val
                /\ pc' = [pc EXCEPT ![r] = "terminate"]
                /\ stack' = stack
           ELSE /\ matC' = matC
                /\ pc' = [pc EXCEPT ![r] = "kernel"]
                /\ stack' = [stack EXCEPT ![r] = Append(@, c.val)]
  /\ UNCHANGED << num_procs, size, cap, matA, matB, chan, wk, termI, started,
                  replied, answered, taskLog, shutLog, gotShutdown, kcall,
                  reported, dec >>

\* The sending loop: one MPI_Send of the Task of slot i to child_rank.
KSend(r) ==
  /\ pc[r] = "kernel"
  /\ SendComplete(r)
  /\ Top(r).phase = "send"
  /\ LET f == Top(r)
         child == ChildRank(r, f.i)
     IN  /\ chan' = Post(r, child, TaskField(f, f.fld))
         /\ stack' =
              LET g == IF f.fld = 1 THEN [f EXCEPT !.tasks[f.i] = @ + 1]
                       ELSE f
              IN  ReplaceTop(r,
                    IF f.fld < 5 THEN [g EXCEPT !.fld = f.fld + 1]
                    ELSE AtSendSlot(g, NextChild(r, f.i + 1, num_procs)))
         /\ started' =
              IF f.fld = 1 /\ child \in Ranks
                THEN [started EXCEPT ![child] = @ + 1]
                ELSE started
         /\ taskLog' =
              IF f.fld = 1
                THEN taskLog \cup
                       { [src |-> r, dst |-> child, n |-> f.n,
                          level |-> f.level, slot |-> f.i,
                          A |-> f.A, B |-> f.B] }
                ELSE taskLog
  /\ UNCHANGED << num_procs, size, cap, matA, matB, matC, pc, wk, termI,
                  replied, answered, shutLog, gotShutdown, kcall, reported,
                  dec >>

\* The receive of slot i accepting the reply of any child of this rank.
RecvSource_AnySource(rank, i, nprocs) ==
  { ChildRank(rank, j) : j \in { x \in 0 .. 6 : ChildValid(rank, x, nprocs) } }

\* The replies collected from the last valid child down.
RecvSource_LastFirst(rank, i, nprocs) ==
  LET valid == { x \in 0 .. 6 : ChildValid(rank, x, nprocs) }
  IN  { ChildRank(rank, Cardinality(valid) - 1 - i) }

\* The source of MPI_Recv(flatResult, k * k, MPI_INT, child_rank, ..).
RecvSource(rank, i, nprocs) == { ChildRank(rank, i) }

\* The collecting loop, slot i of a valid child: MPI_Recv of k*k ints from
\* child_rank, unflattened into P[i].
KRecv(r) ==
  /\ pc[r] = "kernel"
  /\ SendComplete(r)
  /\ Top(r).phase = "collect"
  /\ Top(r).i < 7
  /\ Top(r).dist
  /\ ChildValid(r, Top(r).i, num_procs)
  /\ \E child \in RecvSource(r, Top(r).i, num_procs) :
     LET f == Top(r)
         k == HalfSize(f.n)
     IN  /\ child \in Ranks
         /\ chan[<<child, r>>] # << >>
         /\ LET m == Head(chan[<<child, r>>])
            IN  IF m.count = k * k
                  THEN /\ stack' =
                            ReplaceTop(r,
                              [f EXCEPT !.P[f.i] = unflattenMatrix(m.data, k),
                                        !.got[f.i] = @ + 1,
                                        !.how[f.i] = "remote",
                                        !.i = f.i + 1])
                       /\ pc' = pc
                       /\ answered' = [answered EXCEPT ![child] = @ + 1]
                  ELSE /\ stack' = stack
                       /\ pc' = [pc EXCEPT ![r] = "abort"]
                       /\ answered' = answered
         /\ chan' = [chan EXCEPT ![<<child, r>>] = Tail(@)]
  /\ UNCHANGED << num_procs, size, cap, matA, matB, matC, wk, termI, started,
                  replied, taskLog, shutLog, gotShutdown, kcall, reported,
                  dec >>

\* A slot computed by this process: computeStrassenProductMPI(.., k, rank,
\* num_procs, level, i), which calls the kernel on the operand pair.
KLocal(r) ==
  /\ pc[r] = "kernel"
  /\ SendComplete(r)
  /\ Top(r).phase = "collect"
  /\ Top(r).i < 7
  /\ ~(Top(r).dist /\ ChildValid(r, Top(r).i, num_procs))
  /\ LET f == Top(r)
         k == HalfSize(f.n)
         ops == ProductOperands(splitMatrix(f.A, k), splitMatrix(f.B, k),
                                k, f.i)
         c == KCall(ops.tempA, ops.tempB, k, r, ProductLevel(f.level))
     IN  stack' =
           IF c.ret
             THEN ReplaceTop(r, [f EXCEPT !.P[f.i] = c.val,
                                          !.got[f.i] = @ + 1,
                                          !.how[f.i] = "local",
                                          !.i = f.i + 1])
             ELSE [stack EXCEPT ![r] = Append(@, c.val)]
  /\ UNCHANGED << num_procs, size, cap, matA, matB, matC, pc, chan, wk, termI,
                  started, replied, answered, taskLog, shutLog, gotShutdown,
                  kcall, reported, dec >>

\* All seven products are there: recombine and return C to the caller.
KReturn(r) ==
  /\ pc[r] = "kernel"
  /\ SendComplete(r)
  /\ Top(r).phase = "collect"
  /\ Top(r).i = 7
  /\ LET f == Top(r)
         val == Recombine(f.P, HalfSize(f.n))
         depth == Len(stack[r])
     IN  IF depth > 1
           THEN LET caller == stack[r][depth - 1]
                IN  /\ stack' =
                         [stack EXCEPT ![r] =
                           Append(SubSeq(@, 1, depth - 2),
                                  [caller EXCEPT !.P[caller.i] = val,
                                                 !.got[caller.i] = @ + 1,
                                                 !.how[caller.i] = "local",
                                                 !.i = caller.i + 1])]
                    /\ UNCHANGED << pc, matC, wk >>
           ELSE /\ stack' = [stack EXCEPT ![r] = << >>]
                /\ IF r = 0
                     THEN /\ matC' = val
                          /\ pc' = [pc EXCEPT ![r] = "terminate"]
                          /\ wk' = wk
                     ELSE /\ matC' = matC
                          /\ pc' = [pc EXCEPT ![r] = "reply"]
                          /\ wk' = [wk EXCEPT ![r].result = val]
  /\ UNCHANGED << num_procs, size, cap, matA, matB, chan, termI, started,
                  replied, answered, taskLog, shutLog, gotShutdown, kcall,
                  reported, dec >>

----------------------------------------------------------------------------
(* main.c: workerProcess                                                   *)

\* The termination test with the wrong comparison (n < 0).
IsTermination_Negative(n) == n < 0

\* The termination test inverted (n != 0).
IsTermination_NonZero(n) == n # 0

\* if (n == 0) break;
IsTermination(n) == n = 0

\* The level workerProcess passes to computeStrassenProductMPI.
WorkerLevel(level) == level + 1

\* MPI_Recv(&n, 1, MPI_INT, MPI_ANY_SOURCE, ..): the first message of a
\* loop iteration, from whichever rank has one for this worker.
WRecvSize(w) ==
  /\ w # 0
  /\ pc[w] = "wait"
  /\ SendComplete(w)
  /\ \E s \in Ranks :
       /\ chan[<<s, w>>] # << >>
       /\ LET m == Head(chan[<<s, w>>])
          IN  /\ chan' = [chan EXCEPT ![<<s, w>>] = Tail(@)]
              /\ gotShutdown' =
                   [gotShutdown EXCEPT ![w] = @ \/ m.data[1] = 0]
              /\ IF m.count # 1
                   THEN /\ pc' = [pc EXCEPT ![w] = "abort"]
                        /\ wk' = wk
                   ELSE IF IsTermination(m.data[1])
                   THEN /\ pc' = [pc EXCEPT ![w] = "done"]
                        /\ wk' = [wk EXCEPT ![w].n = m.data[1]]
                   ELSE /\ pc' = [pc EXCEPT ![w] = "product_index"]
                        /\ wk' = [wk EXCEPT ![w].n = m.data[1],
                                            ![w].parent_rank = s]
  /\ UNCHANGED << num_procs, size, cap, matA, matB, matC, stack, termI,
                  started, replied, answered, taskLog, shutLog, kcall,
                  reported, dec >>

\* The MPI count the receive at pc expects.
ExpectedCount(at, n) ==
  IF at \in {"A", "B"} THEN n * n ELSE 1

\* The four receives from parent_rank: product_index, level, A, B.
WRecvField(w) ==
  /\ w # 0
  /\ pc[w] \in {"product_index", "level", "A", "B"}
  /\ <<wk[w].parent_rank, w>> \in DOMAIN chan
  /\ chan[<<wk[w].parent_rank, w>>] # << >>
  /\ LET l == wk[w]
         m == Head(chan[<<l.parent_rank, w>>])
     IN  /\ chan' = [chan EXCEPT ![<<l.parent_rank, w>>] = Tail(@)]
         /\ IF m.count # ExpectedCount(pc[w], l.n)
              THEN /\ pc' = [pc EXCEPT ![w] = "abort"]
                   /\ wk' = wk
              ELSE CASE pc[w] = "product_index" ->
                          /\ wk' = [wk EXCEPT ![w].product_index = m.data[1]]
                          /\ pc' = [pc EXCEPT ![w] = "level"]
                     [] pc[w] = "level" ->
                          /\ wk' = [wk EXCEPT ![w].level = m.data[1]]
                          /\ pc' = [pc EXCEPT ![w] = "A"]
                     [] pc[w] = "A" ->
                          /\ wk' = [wk EXCEPT
                                      ![w].A = unflattenMatrix(m.data, l.n)]
                          /\ pc' = [pc EXCEPT ![w] = "B"]
                     [] pc[w] = "B" ->
                          /\ wk' = [wk EXCEPT
                                      ![w].B = unflattenMatrix(m.data, l.n)]
                          /\ pc' = [pc EXCEPT ![w] = "compute"]
  /\ UNCHANGED << num_procs, size, cap, matA, matB, matC, stack, termI,
                  started, replied, answered, taskLog, shutLog, gotShutdown,
                  kcall, reported, dec >>

\* The reply sent with the Task's count n * n in place of k * k.
ReplyMsg_TaskCount(result, k) ==
  Msg("reply", 4 * k * k, flattenMatrix(result, k))

\* The reply sent with count k in place of k * k.
ReplyMsg_SideCount(result, k) == Msg("reply", k, flattenMatrix(result, k))

\* The reply: MPI_Send(flatResult, k * k, MPI_INT, parent_rank, ..).
ReplyMsg(result, k) == Msg("reply", k * k, flattenMatrix(result, k))

\* k = n / 2, the quadrants, and result = computeStrassenProductMPI(.., k,
\* rank, num_procs, level + 1, product_index).  When the kernel makes no
\* MPI call the result is there at once and this step sends it back too.
WCompute(w) ==
  /\ w # 0
  /\ pc[w] = "compute"
  /\ SendComplete(w)
  /\ LET l == wk[w]
         k == HalfSize(l.n)
         ops == ProductOperands(splitMatrix(l.A, k), splitMatrix(l.B, k),
                                k, l.product_index)
         lv == ProductLevel(WorkerLevel(l.level))
         c == KCall(ops.tempA, ops.tempB, k, w, lv)
     IN  /\ kcall' = [kcall EXCEPT ![w] =
                        [made |-> TRUE, n |-> k, level |-> lv,
                         taskLevel |-> l.level]]
         /\ IF c.ret
              THEN /\ wk' = [wk EXCEPT ![w].result = c.val]
                   /\ chan' = Post(w, l.parent_rank, ReplyMsg(c.val, k))
                   /\ replied' = [replied EXCEPT ![w] = @ + 1]
                   /\ pc' = [pc EXCEPT ![w] = "wait"]
                   /\ stack' = stack
              ELSE /\ wk' = wk
                   /\ chan' = chan
                   /\ replied' = replied
                   /\ pc' = [pc EXCEPT ![w] = "kernel"]
                   /\ stack' = [stack EXCEPT ![w] = Append(@, c.val)]
  /\ UNCHANGED << num_procs, size, cap, matA, matB, matC, termI, started,
                  answered, taskLog, shutLog, gotShutdown, reported, dec >>

\* The result of a kernel call that communicated is sent back; then loop.
WReply(w) ==
  /\ w # 0
  /\ pc[w] = "reply"
  /\ SendComplete(w)
  /\ LET l == wk[w]
         k == HalfSize(l.n)
     IN  chan' = Post(w, l.parent_rank, ReplyMsg(l.result, k))
  /\ replied' = [replied EXCEPT ![w] = @ + 1]
  /\ pc' = [pc EXCEPT ![w] = "wait"]
  /\ UNCHANGED << num_procs, size, cap, matA, matB, matC, stack, wk, termI,
                  started, answered, taskLog, shutLog, gotShutdown, kcall,
                  reported, dec >>

----------------------------------------------------------------------------
(* main.c: the coordinator's termination loop                              *)

\* The termination loop stopping one rank early.
TermLoopCond_StopsEarly(i, nprocs) == i < nprocs - 1

\* The termination loop running one rank too far.
TermLoopCond_OneTooFar(i, nprocs) == i <= nprocs

\* for (int i = 1; i < num_procs; i++)
TermLoopCond(i, nprocs) == i < nprocs

\* MPI_Send(&terminate, 1, MPI_INT, i, TAG_WORK, MPI_COMM_WORLD)
Terminate(r) ==
  /\ r = 0
  /\ pc[r] = "terminate"
  /\ SendComplete(r)
  /\ TermLoopCond(termI, num_procs)
  /\ chan' = Post(r, termI, Msg("shutdown", 1, << 0 >>))
  /\ shutLog' = Append(shutLog, [src |-> r, dst |-> termI])
  /\ termI' = termI + 1
  /\ UNCHANGED << num_procs, size, cap, matA, matB, matC, pc, stack, wk,
                  started, replied, answered, taskLog, gotShutdown, kcall,
                  reported, dec >>

\* The loop is over: MPI_Finalize and return.
Finalize(r) ==
  /\ r = 0
  /\ pc[r] = "terminate"
  /\ SendComplete(r)
  /\ ~TermLoopCond(termI, num_procs)
  /\ pc' = [pc EXCEPT ![r] = "done"]
  /\ UNCHANGED << num_procs, size, cap, matA, matB, matC, stack, chan, wk,
                  termI, started, replied, answered, taskLog, shutLog,
                  gotShutdown, kcall, reported, dec >>

----------------------------------------------------------------------------
(* The specification of a run                                              *)

DecIdle ==
  [n |-> 0, level |-> 0, nprocs |-> 0, rank |-> 0, called |-> FALSE,
   out |-> FALSE]

InitRun(c) ==
  /\ size = c[1]
  /\ num_procs = c[2]
  /\ cap = c[3]
  /\ matA = InputMatrix(c[1], c[4])
  /\ matB = InputMatrix(c[1], c[5])
  /\ matC = << >>
  /\ pc = [r \in 0 .. (c[2] - 1) |-> "start"]
  /\ stack = [r \in 0 .. (c[2] - 1) |-> << >>]
  /\ chan = [p \in (0 .. (c[2] - 1)) \X (0 .. (c[2] - 1)) |-> << >>]
  /\ wk = [r \in 0 .. (c[2] - 1) |->
            [n |-> 0, product_index |-> 0, level |-> 0, parent_rank |-> 0,
             A |-> << >>, B |-> << >>, result |-> << >>]]
  /\ termI = 1
  /\ started = [r \in 0 .. (c[2] - 1) |-> 0]
  /\ replied = [r \in 0 .. (c[2] - 1) |-> 0]
  /\ answered = [r \in 0 .. (c[2] - 1) |-> 0]
  /\ taskLog = {}
  /\ shutLog = << >>
  /\ gotShutdown = [r \in 0 .. (c[2] - 1) |-> FALSE]
  /\ kcall = [r \in 0 .. (c[2] - 1) |->
               [made |-> FALSE, n |-> 0, level |-> 0, taskLevel |-> 0]]
  /\ reported = {}

Init ==
  /\ \E c \in Runs : InitRun(c)
  /\ dec = DecIdle

Next ==
  \/ \E r \in Ranks : Start(r)
  \/ \E r \in Ranks : MainCall(r)
  \/ \E r \in Ranks : KSend(r)
  \/ \E r \in Ranks : KRecv(r)
  \/ \E r \in Ranks : KLocal(r)
  \/ \E r \in Ranks : KReturn(r)
  \/ \E r \in Ranks : WRecvSize(r)
  \/ \E r \in Ranks : WRecvField(r)
  \/ \E r \in Ranks : WCompute(r)
  \/ \E r \in Ranks : WReply(r)
  \/ \E r \in Ranks : Terminate(r)
  \/ \E r \in Ranks : Finalize(r)

Spec == Init /\ [][Next]_vars

\* Fair scheduling: while some process can take a step, a step is taken.
\* (A step a process can take stays possible until it takes it: a message
\* is received only by its addressee and a send completes only by being
\* received, so fairness to each process is no stronger than this.)
FairSpec == Spec /\ WF_vars(Next)

\* The runs of Spec and the runs with a rejected size argument.
InitArgs ==
  /\ \E c \in Runs \cup BadRuns : InitRun(c)
  /\ dec = DecIdle

SpecArgs == InitArgs /\ [][Next]_vars

----------------------------------------------------------------------------
(* shouldDistribute on its own                                             *)

DecideSizes == {1, 2, 32, 63, 64, 65, 128, 256}

MaxDecideLevel == 6

MaxDecideProcs == 16

MaxDecideRank == 2

InitDecide ==
  /\ InitRun(<<64, 1, 0, "zero", "zero">>)
  /\ \E n \in DecideSizes, level \in 0 .. MaxDecideLevel,
        nprocs \in 1 .. MaxDecideProcs, rank \in 0 .. MaxDecideRank :
       dec = [n |-> n, level |-> level, nprocs |-> nprocs, rank |-> rank,
              called |-> FALSE, out |-> FALSE]

CallShouldDistribute ==
  /\ ~dec.called
  /\ dec' = [dec EXCEPT
               !.called = TRUE,
               !.out = shouldDistribute(dec.n, dec.level, dec.nprocs,
                                        dec.rank)]
  /\ UNCHANGED protoVars

NextDecide == CallShouldDistribute

SpecDecide == InitDecide /\ [][NextDecide]_vars

----------------------------------------------------------------------------
(* The chain of kernel calls nested in one another on one process: a call  *)
(* of size n above the base case makes its local products by calls of      *)
(* size n / 2 at level + 1, and each call evaluates the decision afresh.   *)

NestSizes == {64, 128, 256, 512, 1024}

InitNest ==
  /\ InitRun(<<64, 1, 0, "zero", "zero">>)
  /\ \E n \in NestSizes, level \in 0 .. MaxDecideLevel,
        nprocs \in 1 .. MaxDecideProcs, rank \in 0 .. MaxDecideRank :
       dec = [n |-> n, level |-> level, nprocs |-> nprocs, rank |-> rank,
              depth |-> 0, enclosingFalse |-> FALSE,
              out |-> shouldDistribute(n, level, nprocs, rank)]

NestCall ==
  /\ dec.n > MIN_SIZE_THRESHOLD
  /\ dec' = [dec EXCEPT
               !.n = HalfSize(dec.n),
               !.level = ProductLevel(dec.level),
               !.depth = @ + 1,
               !.enclosingFalse = @ \/ ~dec.out,
               !.out = shouldDistribute(HalfSize(dec.n),
                                        ProductLevel(dec.level),
                                        dec.nprocs, dec.rank)]
  /\ UNCHANGED protoVars

NextNest == NestCall

SpecNest == InitNest /\ [][NextNest]_vars

----------------------------------------------------------------------------
(* The process tree on its own: the two loops over the slots, from rank 0  *)

MaxTreeProcs == 16

InitTree ==
  /\ InitRun(<<64, 1, 0, "zero", "zero">>)
  /\ \E nprocs \in 1 .. MaxTreeProcs :
       dec = [nprocs |-> nprocs, todo |-> {0},
              visits |-> [c \in 1 .. (nprocs - 1) |-> 0]]

\* for (i = 0; i < 7; i++) { child_rank = ..; if (child_rank < num_procs)
\* .. } on one rank reached so far: each valid child is reached once more.
TreeVisit ==
  /\ \E r \in dec.todo :
       LET slots == { i \in 0 .. 6 : ChildValid(r, i, dec.nprocs) }
           kids == { ChildRank(r, i) : i \in slots }
       IN  dec' = [dec EXCEPT
                     !.todo = (@ \ {r}) \cup kids,
                     !.visits =
                       [c \in DOMAIN @ |->
                         @[c] + Cardinality({ i \in slots :
                                               ChildRank(r, i) = c })]]
  /\ UNCHANGED protoVars

NextTree == TreeVisit

SpecTree == InitTree /\ [][NextTree]_vars

----------------------------------------------------------------------------
(* flattenMatrix and unflattenMatrix on their own                          *)

FlatSizes == {64, 128, 192}

MaxEntry == 1

InitFlat ==
  /\ InitRun(<<64, 1, 0, "zero", "zero">>)
  /\ \E n \in FlatSizes :
       \E M \in [Idx(n) -> [Idx(n) -> 0 .. MaxEntry]] :
         dec = [n |-> n, M |-> M, called |-> FALSE, flat |-> << >>,
                out |-> << >>]

\* flat = flattenMatrix(M, n); out = unflattenMatrix(flat, n)
CallRoundTrip ==
  /\ ~dec.called
  /\ LET flat == flattenMatrix(dec.M, dec.n)
     IN  dec' = [dec EXCEPT !.called = TRUE, !.flat = flat,
                            !.out = unflattenMatrix(flat, dec.n)]
  /\ UNCHANGED protoVars

NextFlat == CallRoundTrip

SpecFlat == InitFlat /\ [][NextFlat]_vars

----------------------------------------------------------------------------
(* Properties                                                              *)

AllDone == \A r \in Ranks : pc[r] = "done"

ShutdownSentTo(w) == \E x \in 1 .. Len(shutLog) : shutLog[x].dst = w

\* C1: once main's call of strassenMultiplyMPI has returned, C is the
\* cubic product of A and B entry by entry, whatever mix of local and
\* offloaded products made it.
C1_ResultIsProduct ==
  matC # << >> => matC = sequentialStandardMultiply(matA, matB, size)

\* C1 witness: the call has returned in a run where rank 1 was sent several
\* Tasks and rank 0 computed products itself (n = 256, two processes).
C1_Witness ==
  /\ matC # << >>
  /\ num_procs = 2
  /\ started[1] > 1

\* C2: under fair scheduling every run ends with every process finished,
\* the top-level call returned and the shutdown signal sent to every rank
\* 1..num_procs-1; no run stops with a process blocked in a send or receive.
C2_Terminates ==
  <>(/\ AllDone
     /\ matC # << >>
     /\ \A w \in 1 .. (num_procs - 1) : ShutdownSentTo(w))

\* C2 witness: all nine processes of the largest run have finished.
C2_Witness ==
  /\ AllDone
  /\ num_procs = 9

AllAnswered ==
  \A w \in Ranks : replied[w] = started[w] /\ answered[w] = started[w]

\* C3: a worker never sends more replies than it was sent Tasks and its
\* issuer never receives more than the worker sent; and whenever a Task
\* sent to some worker is unanswered, eventually every worker has sent
\* one reply per Task it was sent and the issuers have received them all.
C3_TaskAnswered ==
  /\ [](\A w \in Ranks :
          answered[w] <= replied[w] /\ replied[w] <= started[w])
  /\ (\E w \in Ranks : started[w] > answered[w]) ~> AllAnswered

\* C3 witness: rank 1, a worker, has received the reply of its own child,
\* rank 8, and rank 0 has received rank 1's.
C3_Witness ==
  /\ num_procs = 9
  /\ answered[8] = 1
  /\ answered[1] = 1

\* C4: for every worker, the Tasks started to it whose reply its issuer has
\* not yet received are at most one.
C4_OneOutstanding ==
  \A w \in Ranks : started[w] - answered[w] <= 1

\* C4 witness: a nested kernel call on rank 0 has started a second Task to
\* the child that already served the enclosing call.
C4_Witness ==
  /\ Len(stack[0]) = 2
  /\ started[1] = 2
  /\ answered[1] = 1

\* C5: shouldDistribute returns true exactly when n > MIN_SIZE_THRESHOLD,
\* level < MAX_TREE_HEIGHT and rank * 7 + 1 < num_procs.
C5_Decision ==
  dec.called =>
    (dec.out <=> (/\ dec.n > MIN_SIZE_THRESHOLD
                  /\ dec.level < MAX_TREE_HEIGHT
                  /\ dec.rank * 7 + 1 < dec.nprocs))

\* C5 witness: a call that returned true, one level below the limit.
C5_Witness ==
  /\ dec.called
  /\ dec.out
  /\ dec.level = MAX_TREE_HEIGHT - 1

\* C6: every Task started was sent from a kernel call with
\* n > MIN_SIZE_THRESHOLD and level < MAX_TREE_HEIGHT, to rank
\* sender * 7 + 1 + i for its slot i in 0..6, a rank below num_procs; and
\* every Task message in a channel is on the channel of such a Task.
C6_TasksOnlyWhenDistributing ==
  /\ \A t \in taskLog :
       /\ t.n > MIN_SIZE_THRESHOLD
       /\ t.level < MAX_TREE_HEIGHT
       /\ t.slot \in 0 .. 6
       /\ t.dst = t.src * 7 + 1 + t.slot
       /\ t.dst < num_procs
  /\ \A p \in DOMAIN chan : \A x \in 1 .. Len(chan[p]) :
       chan[p][x].kind \in {"size", "product_index", "level", "A", "B"} =>
         \E t \in taskLog : t.src = p[1] /\ t.dst = p[2]

\* C6 witness: a Task sent by a worker (rank 1 to rank 8) is in flight.
C6_Witness ==
  /\ \E t \in taskLog : t.src = 1 /\ t.dst = 8
  /\ num_procs = 9
  /\ chan[<<1, 8>>] # << >>

\* C7: a kernel call nested locally inside another on the same process has
\* the level of the call that encloses it.
C7_LocalCallKeepsLevel ==
  \A r \in Ranks : \A j \in 2 .. Len(stack[r]) :
    stack[r][j].level = stack[r][j - 1].level

\* C8: the kernel call a worker makes for a Task whose level field is L
\* has level L + 1.
C8_WorkerLevelPlusOne ==
  \A w \in Ranks : kcall[w].made => kcall[w].level = kcall[w].taskLevel + 1

\* C9: every shutdown signal is sent by rank 0 to a rank in
\* 1..num_procs-1, no rank is sent two, and rank 0 has sent one to each of
\* them when it finishes; one is sent only after the top-level call has
\* returned and while no Task is unanswered; and no Task carries size 0.
C9_ShutdownOnce ==
  /\ \A x \in 1 .. Len(shutLog) :
       /\ shutLog[x].src = 0
       /\ shutLog[x].dst \in 1 .. (num_procs - 1)
       /\ \A y \in 1 .. Len(shutLog) : shutLog[y].dst = shutLog[x].dst => y = x
  /\ pc[0] = "done" => \A w \in 1 .. (num_procs - 1) : ShutdownSentTo(w)
  /\ shutLog # << >> =>
       /\ matC # << >>
       /\ \A w \in Ranks : answered[w] = started[w]
  /\ \A p \in DOMAIN chan : \A x \in 1 .. Len(chan[p]) :
       /\ chan[p][x].kind = "shutdown" => p[1] = 0 /\ ShutdownSentTo(p[2])
       /\ chan[p][x].kind = "size" => chan[p][x].data[1] # 0

\* C9 witness: rank 0 has finished a nine-process run after its eight
\* shutdown signals, and workers had been sent Tasks.
C9_Witness ==
  /\ pc[0] = "done"
  /\ num_procs = 9
  /\ Len(shutLog) = 8
  /\ started[8] = 1

\* C10: the step in which a worker receives size 0 at the top of its loop
\* takes it out of the loop, and a worker out of the loop stays out: it
\* sends no reply or other message and receives none.
C10_ShutdownIsFinal ==
  [][\A w \in Ranks :
       /\ gotShutdown'[w] => pc'[w] = "done"
       /\ (w # 0 /\ pc[w] = "done") =>
            /\ pc'[w] = "done"
            /\ replied'[w] = replied[w]
            /\ \A d \in Ranks :
                 /\ chan'[<<w, d>>] = chan[<<w, d>>]
                 /\ Len(chan'[<<d, w>>]) >= Len(chan[<<d, w>>])]_vars

\* C10 witness: a worker that answered Tasks has received size 0 and is
\* out of its loop while another worker is still in its own.
C10_Witness ==
  \E w \in Ranks, v \in Ranks :
    /\ gotShutdown[w]
    /\ pc[w] = "done"
    /\ replied[w] >= 1
    /\ v # 0
    /\ pc[v] = "wait"

\* C14: in a run whose matrix side is at most MIN_SIZE_THRESHOLD no Task
\* is ever sent, every message of the run is a shutdown signal, and the
\* coordinator's result is the cubic product of the inputs.
C14_NoTaskAtThreshold ==
  size <= MIN_SIZE_THRESHOLD =>
    /\ taskLog = {}
    /\ \A w \in Ranks : started[w] = 0 /\ replied[w] = 0
    /\ \A p \in DOMAIN chan : \A x \in 1 .. Len(chan[p]) :
         chan[p][x].kind = "shutdown" /\ chan[p][x].data = << 0 >>
    /\ matC # << >> => matC = sequentialStandardMultiply(matA, matB, size)

\* C14 witness: a run of side exactly MIN_SIZE_THRESHOLD on nine processes
\* has delivered its result and a shutdown signal is in flight.
C14_Witness ==
  /\ size = MIN_SIZE_THRESHOLD
  /\ num_procs = 9
  /\ matC # << >>
  /\ chan[<<0, 8>>] # << >>

IsValidSize == \E e \in 1 .. 30 : size = 2 ^ e

\* C15: when the size argument is not a power of two or is below 2, every
\* process goes from its start straight to its end: no message is ever
\* sent, no worker enters its dispatch loop, the kernel is never called,
\* and rank 0 alone reports the error, which it has done when it ends.
C15_RejectedSizeExits ==
  ~IsValidSize =>
    /\ \A r \in Ranks : pc[r] \in {"start", "done"}
    /\ \A p \in DOMAIN chan : chan[p] = << >>
    /\ taskLog = {}
    /\ shutLog = << >>
    /\ matC = << >>
    /\ reported \subseteq {0}
    /\ pc[0] = "done" <=> 0 \in reported

\* C15 witness: all three processes of a run with size 96 have ended and
\* rank 0 has reported the error.
C15_Witness ==
  /\ size = 96
  /\ num_procs = 3
  /\ AllDone
  /\ reported = {0}

\* The field that follows a field of a Task on its channel.
NextKind(kind) ==
  CASE kind = "size" -> {"product_index"}
    [] kind = "product_index" -> {"level"}
    [] kind = "level" -> {"A"}
    [] kind = "A" -> {"B"}
    [] kind = "B" -> {"size", "shutdown"}
    [] OTHER -> {}

\* C11: on a channel to a worker the fields of a Task follow one another
\* in the order size, product_index, level, A, B; a worker in its loop
\* finds the field it is about to receive at the head of its sender's
\* channel and no receive finds a message of another length; and what the
\* worker has decoded so far is, field by field, one Task its sender sent
\* to it.
C11_TaskDecodedAsSent ==
  /\ \A r \in Ranks : pc[r] # "abort"
  /\ \A p \in DOMAIN chan : \A x \in 1 .. (Len(chan[p]) - 1) :
       chan[p][x].kind # "reply" =>
         chan[p][x + 1].kind \in NextKind(chan[p][x].kind)
  /\ \A w \in Ranks \ {0} :
       LET l == wk[w]
           at == pc[w]
           in == chan[<<l.parent_rank, w>>]
       IN  /\ at = "wait" =>
                \A s \in Ranks : chan[<<s, w>>] # << >> =>
                  Head(chan[<<s, w>>]).kind \in {"size", "shutdown"}
           /\ (at \in {"product_index", "level", "A", "B"} /\ in # << >>) =>
                Head(in).kind = at
           /\ at \in {"product_index", "level", "A", "B", "compute"} =>
                \E t \in taskLog :
                  /\ t.src = l.parent_rank
                  /\ t.dst = w
                  /\ t.n = l.n
                  /\ at \in {"level", "A", "B", "compute"} =>
                       t.slot = l.product_index
                  /\ at \in {"A", "B", "compute"} => t.level = l.level
                  /\ at \in {"B", "compute"} => t.A = l.A
                  /\ at = "compute" => t.B = l.B

\* C11 witness: rank 8 has decoded a whole Task that rank 1, itself a
\* worker, sent to it.
C11_Witness ==
  /\ num_procs = 9
  /\ pc[8] = "compute"
  /\ wk[8].parent_rank = 1
  /\ wk[8].n = 128

\* C12: a reply in flight from worker w to rank r is the only message on
\* its channel, carries (n/2)*(n/2) integers for the size n of the Task w
\* last decoded, goes to the rank w received that size from, and r is in
\* the kernel call of size n that sent that Task and has yet to receive
\* the product of that slot; no receive finds a message of another length
\* than the (n/2)*(n/2) it expects.
C12_ReplyShape ==
  /\ \A r \in Ranks : pc[r] # "abort"
  /\ \A p \in DOMAIN chan : \A x \in 1 .. Len(chan[p]) :
       chan[p][x].kind = "reply" =>
         LET w == p[1]
             r == p[2]
             n == wk[w].n
             m == chan[p][x]
         IN  /\ Len(chan[p]) = 1
             /\ w # 0
             /\ r = wk[w].parent_rank
             /\ m.count = (n \div 2) * (n \div 2)
             /\ Len(m.data) = Dim(n \div 2) * Dim(n \div 2)
             /\ stack[r] # << >>
             /\ Top(r).n = n
             /\ \E j \in 0 .. 6 :
                  /\ w = r * 7 + 1 + j
                  /\ Top(r).P[j] = << >>
                  /\ Top(r).phase = "collect" => j >= Top(r).i
                  /\ \E t \in taskLog :
                       t.src = r /\ t.dst = w /\ t.n = n /\ t.slot = j

\* C12 witness: the reply of rank 8 to rank 1, 64 * 64 integers for a Task
\* of size 128, is in flight.
C12_Witness ==
  /\ num_procs = 9
  /\ chan[<<8, 1>>] # << >>
  /\ Head(chan[<<8, 1>>]).kind = "reply"
  /\ Head(chan[<<8, 1>>]).count = 64 * 64

\* C13: for each parent the seven slots map to seven different ranks;
\* every rank in 1..P-1 is r * 7 + 1 + i for exactly one parent r and slot
\* i; and walking the tree from rank 0 reaches no rank twice and, when
\* the walk is over, has reached every rank in 1..P-1 once.
C13_ChildMapping ==
  LET P == dec.nprocs
  IN  /\ \A r \in 0 .. (P - 1) : \A i, j \in 0 .. 6 :
           ChildRank(r, i) = ChildRank(r, j) => i = j
      /\ \A c \in 1 .. (P - 1) :
           Cardinality({ x \in (0 .. (P - 1)) \X (0 .. 6) :
                           ChildRank(x[1], x[2]) = c }) = 1
      /\ \A c \in 1 .. (P - 1) : dec.visits[c] <= 1
      /\ dec.todo = {} => \A c \in 1 .. (P - 1) : dec.visits[c] = 1

\* C13 witness: the walk over a tree of three levels (rank 15 is a child
\* of rank 2) is over.
C13_Witness ==
  /\ dec.nprocs = 16
  /\ dec.todo = {}
  /\ dec.visits[15] = 1

\* The product a Task asks for, as a function of the Task alone.
TaskProduct(n, product_index, A, B) ==
  LET k == n \div 2
      ops == ProductOperands(splitMatrix(A, k), splitMatrix(B, k), k,
                             product_index)
  IN  strassenMultiplyMPI(ops.tempA, ops.tempB, k, 0, 1, 0)

\* C16: whatever the order of the steps and deliveries, the result main
\* obtains is the value the kernel's recursion gives on the inputs alone
\* (the recursion run on one process), and every reply in flight is the
\* product its Task asks for, computed from that Task alone.
C16_Deterministic ==
  /\ matC # << >> => matC = strassenMultiplyMPI(matA, matB, size, 0, 1, 0)
  /\ \A p \in DOMAIN chan : \A x \in 1 .. Len(chan[p]) :
       chan[p][x].kind = "reply" =>
         LET l == wk[p[1]]
         IN  chan[p][x].data =
               flattenMatrix(TaskProduct(l.n, l.product_index, l.A, l.B),
                             l.n \div 2)

\* C16 witness: the result of a run on three processes with a buffered
\* message per channel, where both workers have replied.
C16_Witness ==
  /\ matC # << >>
  /\ num_procs = 3
  /\ cap = 1
  /\ replied[1] = 1
  /\ replied[2] = 1

\* C18: flattenMatrix lays the matrix out row by row in Dim * Dim cells,
\* and unflattenMatrix of that layout is the matrix again, entry by entry.
C18_RoundTrip ==
  dec.called =>
    /\ Len(dec.flat) = Dim(dec.n) * Dim(dec.n)
    /\ \A i, j \in Idx(dec.n) :
         /\ dec.flat[i * Dim(dec.n) + j + 1] = dec.M[i][j]
         /\ dec.out[i][j] = dec.M[i][j]
    /\ dec.out = dec.M

\* C18 witness: the round trip of a matrix of three rows that is not
\* symmetric.
C18_Witness ==
  /\ dec.called
  /\ dec.n = 192
  /\ dec.M[0][1] # dec.M[1][0]
  /\ dec.M[0][2] # dec.M[2][0]

\* The slots of rank r that have a process to go to.
ValidSlots(r) == { i \in 0 .. 6 : r * 7 + 1 + i < num_procs }

\* C19: in every kernel call that communicates, on rank r: the decision is
\* the three conditions; one Task is sent for each slot of ValidSlots(r)
\* and none for another slot, all of them before the collecting loop; a
\* product is received exactly for the slots of ValidSlots(r) and computed
\* by r itself for every other slot; no product is obtained twice and all
\* seven are there when the call returns.  The product index in a Task to
\* rank c from rank r is c - (r * 7 + 1), and a rank without a valid child
\* sends no Task.
C19_OffloadSplit ==
  /\ \A r \in Ranks : \A x \in 1 .. Len(stack[r]) :
       LET f == stack[r][x]
       IN  /\ f.dist <=> (/\ f.n > MIN_SIZE_THRESHOLD
                          /\ f.level < MAX_TREE_HEIGHT
                          /\ r * 7 + 1 < num_procs)
           /\ \A i \in 0 .. 6 :
                /\ f.tasks[i] <= (IF f.dist /\ i \in ValidSlots(r) THEN 1 ELSE 0)
                /\ (f.phase = "collect" /\ f.dist /\ i \in ValidSlots(r)) =>
                     f.tasks[i] = 1
                /\ f.got[i] <= 1
                /\ f.got[i] = 1 <=> f.P[i] # << >>
                /\ f.how[i] = "remote" => (f.dist /\ i \in ValidSlots(r))
                /\ f.how[i] = "local" => ~(f.dist /\ i \in ValidSlots(r))
                /\ f.phase = "collect" => (f.got[i] = 1 <=> i < f.i)
                /\ f.phase = "send" => f.got[i] = 0
  /\ \A p \in DOMAIN chan : \A x \in 1 .. Len(chan[p]) :
       chan[p][x].kind = "product_index" =>
         chan[p][x].data = << p[2] - (p[1] * 7 + 1) >>
  /\ \A t \in taskLog :
       /\ ValidSlots(t.src) # {}
       /\ t.slot \in ValidSlots(t.src)
       /\ t.dst = t.src * 7 + 1 + t.slot

\* C19 witness: a call of rank 0 on three processes is about to return
\* with two products received and five computed by rank 0.
C19_Witness ==
  /\ num_procs = 3
  /\ stack[0] # << >>
  /\ Top(0).i = 7
  /\ Top(0).tasks = [i \in 0 .. 6 |-> IF i < 2 THEN 1 ELSE 0]
  /\ Top(0).how = [i \in 0 .. 6 |-> IF i < 2 THEN "remote" ELSE "local"]

\* C20 as claimed: while a process is blocked in the receive for a child's
\* reply, no slot without a valid child of that call is still to compute.
C20_LocalNeverWaits ==
  \A r \in Ranks :
    (/\ pc[r] = "kernel"
     /\ Top(r).dist
     /\ Top(r).phase = "collect"
     /\ Top(r).i \in ValidSlots(r)
     /\ chan[<<r * 7 + 1 + Top(r).i, r>>] = << >>) =>
      \A j \in (0 .. 6) \ ValidSlots(r) : Top(r).got[j] = 1

\* C20 amended: a slot without a valid child is computed by the process
\* itself, never received, and it is computed or begun only in the
\* collecting loop, after the Tasks of all valid slots have been sent and
\* their replies received.
C20_LocalAfterReplies ==
  \A r \in Ranks : \A x \in 1 .. Len(stack[r]) :
    LET f == stack[r][x]
    IN  f.dist =>
          \A j \in (0 .. 6) \ ValidSlots(r) :
            /\ f.how[j] \in {"none", "local"}
            /\ (f.got[j] = 1 \/ (f.phase = "collect" /\ f.i = j)) =>
                 /\ f.phase = "collect"
                 /\ \A i \in ValidSlots(r) :
                      f.tasks[i] = 1 /\ f.how[i] = "remote"

\* C20 witness: rank 0, with one child, has computed slot 1 itself after
\* receiving the product of slot 0.
C20_Witness ==
  /\ num_procs = 2
  /\ stack[0] # << >>
  /\ Top(0).how[0] = "remote"
  /\ Top(0).how[1] = "local"

\* C21: in every kernel call, the matrix stored in P[i] for a slot whose
\* product was received is the product with index i of that call's own
\* operands; and a reply in flight to rank r from its child of slot j is
\* the product with index j of the operands of the call r is in and is
\* the only reply that child has not had collected.
C21_RepliesNotConfused ==
  /\ \A r \in Ranks : \A x \in 1 .. Len(stack[r]) :
       LET f == stack[r][x]
       IN  \A i \in 0 .. 6 :
             f.how[i] = "remote" =>
               f.P[i] = TaskProduct(f.n, i, f.A, f.B)
  /\ \A p \in DOMAIN chan : \A x \in 1 .. Len(chan[p]) :
       chan[p][x].kind = "reply" =>
         LET w == p[1]
             r == p[2]
             j == w - (r * 7 + 1)
         IN  /\ j \in 0 .. 6
             /\ stack[r] # << >>
             /\ chan[p][x].data =
                  flattenMatrix(TaskProduct(Top(r).n, j, Top(r).A, Top(r).B),
                                Top(r).n \div 2)
             /\ replied[w] = answered[w] + 1

\* C21 witness: a call nested in another on rank 0 has received from rank
\* 1 the product of its own slot 0, after rank 1 served the enclosing call.
C21_Witness ==
  /\ num_procs = 2
  /\ Len(stack[0]) = 2
  /\ Top(0).how[0] = "remote"
  /\ stack[0][1].how[0] = "remote"
  /\ Top(0).P[0] # stack[0][1].P[0]

\* C22: a kernel call nested, on the same process, in a call for which
\* shouldDistribute returned false gets false from shouldDistribute too.
C22_DistributionTapers ==
  dec.enclosingFalse => ~dec.out

\* C22 witness: a nested call above the threshold on a process that has a
\* child, whose enclosing call decided to compute locally.
C22_Witness ==
  /\ dec.depth >= 1
  /\ dec.enclosingFalse
  /\ dec.n > MIN_SIZE_THRESHOLD
  /\ dec.rank * 7 + 1 < dec.nprocs
  /\ ~dec.out

\* C23: the size of every kernel call on every process, of every call
\* nested in it and of every Task is a power of two >= 1, and a nested
\* call has exactly half the size of the call it is nested in.
C23_SizesArePowersOfTwo ==
  LET Pow2(n) == \E e \in 0 .. 12 : n = 2 ^ e
      Halved(c) == Pow2(c[1]) /\ Pow2(c[2]) /\ c[2] * 2 = c[1]
  IN  /\ pc[0] \notin {"start", "abort"} =>
           Pow2(size) /\ \A c \in KernelCalls(size) : Halved(c)
      /\ \A r \in Ranks :
           /\ \A x \in 1 .. Len(stack[r]) :
                /\ Pow2(stack[r][x].n)
                /\ x > 1 => stack[r][x].n * 2 = stack[r][x - 1].n
                /\ \A c \in KernelCalls(stack[r][x].n) : Halved(c)
           /\ r = 0 /\ stack[r] # << >> => stack[r][1].n = size
           /\ kcall[r].made =>
                /\ Pow2(kcall[r].n)
                /\ \E t \in taskLog : t.dst = r /\ kcall[r].n * 2 = t.n
                /\ \A c \in KernelCalls(kcall[r].n) : Halved(c)
                /\ stack[r] # << >> => stack[r][1].n = kcall[r].n
      /\ \A t \in taskLog : Pow2(t.n)
      /\ \A p \in DOMAIN chan : \A x \in 1 .. Len(chan[p]) :
           chan[p][x].kind = "size" => Pow2(chan[p][x].data[1])

\* C23 witness: rank 8 computes a Task of rank 1 by a kernel call of size
\* 64, a quarter of the top-level size, while rank 1 is in its own call of
\* size 128.
C23_Witness ==
  /\ size = 256
  /\ num_procs = 9
  /\ kcall[8].made
  /\ kcall[8].n = 64
  /\ stack[1] # << >>
  /\ stack[1][1].n = 128

\* C24: every Task a worker w receives was sent by (w - 1) div 7; every
\* message found by the any-source receive at the top of the worker's loop
\* is the size field of a Task from that parent or the shutdown signal
\* from process 0; a shutdown signal is only ever sent by process 0.
C24_TasksFromParentOnly ==
  LET TaskKinds == {"size", "product_index", "level", "A", "B"}
  IN  \A w \in Ranks \ {0} :
        /\ \A t \in taskLog : t.dst = w => t.src = (w - 1) \div 7
        /\ pc[w] \in {"product_index", "level", "A", "B", "compute",
                      "kernel", "reply"} =>
             wk[w].parent_rank = (w - 1) \div 7
        /\ \A s \in Ranks : \A x \in 1 .. Len(chan[<<s, w>>]) :
             LET m == chan[<<s, w>>][x]
             IN  /\ m.kind \in TaskKinds => s = (w - 1) \div 7
                 /\ m.kind = "shutdown" => s = 0
                 /\ m.data[1] = 0 /\ m.count = 1 /\ x = 1 /\ pc[w] = "wait"
                      => m.kind = "shutdown"
                 /\ m.kind = "reply" => w = (s - 1) \div 7
        /\ pc[w] = "wait" =>
             \A s \in Ranks :
               chan[<<s, w>>] # << >> =>
                 LET m == Head(chan[<<s, w>>])
                 IN  \/ m.kind = "size" /\ s = (w - 1) \div 7
                     \/ m.kind = "shutdown" /\ s = 0

\* C24 witness: rank 8 took the size field of a Task at its any-source
\* receive; the sender was rank 1, its parent, and the rest of that Task
\* is on the way from rank 1.
C24_Witness ==
  /\ num_procs = 9
  /\ pc[8] = "product_index"
  /\ wk[8].parent_rank = 1
  /\ chan[<<1, 8>>] # << >>

\* C25: from the first shutdown message on, no Task field and no reply is
\* on any channel, no kernel call is open on any process, every Task
\* started has been replied to and its reply collected, and no worker is
\* receiving, computing or answering a Task; and at no time does a receive
\* that expects a Task field or a reply find a shutdown message.
C25_QuiescentAtShutdown ==
  /\ shutLog # << >> =>
       /\ \A p \in DOMAIN chan : \A x \in 1 .. Len(chan[p]) :
            chan[p][x].kind = "shutdown"
       /\ \A r \in Ranks :
            /\ stack[r] = << >>
            /\ started[r] = replied[r]
            /\ replied[r] = answered[r]
            /\ r # 0 => pc[r] \in {"start", "wait", "done"}
       /\ pc[0] \in {"terminate", "done"}
  /\ \A w \in Ranks \ {0} :
       pc[w] \in {"product_index", "level", "A", "B"} =>
         \A x \in 1 .. Len(chan[<<wk[w].parent_rank, w>>]) :
           chan[<<wk[w].parent_rank, w>>][x].kind # "shutdown"
  /\ \A r \in Ranks :
       pc[r] = "kernel" =>
         \A c \in Ranks : \A x \in 1 .. Len(chan[<<c, r>>]) :
           chan[<<c, r>>][x].kind # "shutdown"

\* C25 witness: the first shutdown message has just been sent in a run in
\* which ranks 1..7 served rank 0 and rank 8 served rank 1; all eight are
\* back at the receive at the top of their loop.
C25_Witness ==
  /\ Len(shutLog) = 1
  /\ num_procs = 9
  /\ size = 256
  /\ replied[8] = 1
  /\ \A w \in 1 .. 7 : replied[w] = 1
  /\ \A w \in 1 .. 8 : pc[w] = "wait"
  /\ chan[<<0, 1>>] # << >>

\* C26: every Task sent, and every size field on a channel, carries a size
\* greater than MIN_SIZE_THRESHOLD; and a worker that has left its loop
\* left it on a size-0 message that rank 0 sent it from its shutdown loop,
\* which is no longer on the channel, with every Task it took answered.
C26_TaskNeverShutdown ==
  /\ \A t \in taskLog : t.n > MIN_SIZE_THRESHOLD /\ t.n # 0
  /\ \A p \in DOMAIN chan : \A x \in 1 .. Len(chan[p]) :
       chan[p][x].kind = "size" =>
         chan[p][x].data[1] > MIN_SIZE_THRESHOLD
  /\ \A w \in Ranks \ {0} :
       /\ pc[w] # "abort"
       /\ pc[w] = "done" =>
            /\ gotShutdown[w]
            /\ wk[w].n = 0
            /\ \E x \in 1 .. Len(shutLog) :
                 shutLog[x].src = 0 /\ shutLog[x].dst = w
            /\ chan[<<0, w>>] = << >>
            /\ started[w] = replied[w]

\* C26 witness: rank 8, which took its Task from rank 1, has left its loop
\* on the shutdown message of rank 0.
C26_Witness ==
  /\ num_procs = 9
  /\ pc[8] = "done"
  /\ replied[8] = 1
  /\ wk[8].parent_rank = 1
  /\ wk[8].n = 0
  /\ \E t \in taskLog : t.dst = 8 /\ t.n = 128

====
